---- MODULE Spec2Model ----
(***************************************************************************)
(* savecb.c: save the clipboard's image or text to a file chosen in a      *)
(* native save dialog.  The program is a chain of GTK callbacks:           *)
(*   main -> on_clipboard_received_targets -> on_clipboard_received_content*)
(*        -> save_image | save_text -> gtk_main_quit -> main returns.      *)
(* Strings are sequences of one-character strings, so that the prefix,     *)
(* suffix and comparison tests of the code are computed, not assumed.      *)
(* Text payloads are sequences of byte values.                             *)
(***************************************************************************)
EXTENDS Integers, Sequences, FiniteSets, TLC

\* ------------------------------------------------------------------ bounds
\* longest target list the clipboard offers
MaxTargets == 3
\* longest text payload, in bytes
MaxTextLen == 2

\* ------------------------------------------------- clipboard target names
ImagePng == <<"i","m","a","g","e","/","p","n","g">>
ImageJpeg == <<"i","m","a","g","e","/","j","p","e","g">>
TextPlain == <<"t","e","x","t","/","p","l","a","i","n">>
Utf8String == <<"U","T","F","8","_","S","T","R","I","N","G">>
TextPlainCharset == <<"t","e","x","t","/","p","l","a","i","n",";","c","h","a","r","s","e","t","=","u","t","f","-","8">>
ImageNoSlash == <<"i","m","a","g","e">>

\* the identifiers a clipboard owner may offer in this model
TargetNames == {ImagePng, ImageJpeg, TextPlain, Utf8String, TextPlainCharset, ImageNoSlash}

\* GDK_NONE, the NULL atom
NoAtom == <<>>

RECURSIVE SeqsUpTo(_, _)
SeqsUpTo(S, n) ==
    IF n = 0 THEN {<<>>}
    ELSE LET shorter == SeqsUpTo(S, n - 1)
         IN  shorter \cup {Append(s, x) : s \in shorter, x \in S}

\* every target list the host clipboard may deliver (NULL, 0 is the empty list)
TargetLists == SeqsUpTo(TargetNames, MaxTargets)

\* ------------------------------------------------------------ file names
PathJpg == <<"a",".","j","p","g">>
PathJpeg == <<"a",".","j","p","e","g">>
PathPng == <<"a",".","p","n","g">>
PathTxt == <<"a",".","t","x","t">>
PathNoExt == <<"a">>
PathUpperJpg == <<"a",".","J","P","G">>
PathJpgBak == <<"a",".","j","p","g",".","b","a","k">>
PathNoDotJpg == <<"j","p","g">>
PathOnlyExt == <<".","j","p","e","g">>
PathJpe == <<"a",".","j","p","e">>

\* the paths gtk_file_chooser_get_filename may return
Paths == {PathJpg, PathJpeg, PathPng, PathTxt, PathNoExt, PathUpperJpg,
          PathJpgBak, PathNoDotJpg, PathOnlyExt, PathJpe}

\* gtk_file_chooser_get_filename returning NULL
NullPath == <<>>

\* the files that exist before the run, and what every one of them holds
ExistingPaths == {PathJpg, PathTxt, PathNoExt, PathPng}
OldData == <<111, 108, 100>>
NoFile == [kind |-> "none", data |-> <<>>]
InitFS == [p \in Paths |-> IF p \in ExistingPaths
                             THEN [kind |-> "bytes", data |-> OldData]
                             ELSE NoFile]

\* ---------------------------------------------------------- text payloads
\* 'h' and '\n'
TextBytes == {104, 10}
Texts == SeqsUpTo(TextBytes, MaxTextLen)

\* --------------------------------------------------------- selection data
\* What the clipboard owner answers to gtk_clipboard_request_contents:
\* length -1 is a failed retrieval, 0 an empty one.
SelectionData ==
    {[length |-> -1, kind |-> "other", text |-> <<>>],
     [length |-> 0, kind |-> "other", text |-> <<>>],
     [length |-> 0, kind |-> "text", text |-> <<>>],
     [length |-> 0, kind |-> "image", text |-> <<>>],
     [length |-> 1, kind |-> "other", text |-> <<>>],
     [length |-> 1, kind |-> "image", text |-> <<>>]}
    \cup {[length |-> Len(t) + 1, kind |-> "text", text |-> t] : t \in Texts}

\* ------------------------------------------------------ the user's answers
Responses == {"ACCEPT", "CANCEL", "DELETE_EVENT"}
NoAnswer == [response |-> "CANCEL", filename |-> NullPath, filter |-> "png",
             ok |-> TRUE, onFail |-> "unchanged"]
\* what the dialog, the user and the filesystem do during one save routine
Answers ==
    {[response |-> r, filename |-> NullPath, filter |-> f, ok |-> TRUE, onFail |-> "unchanged"] :
        r \in Responses, f \in {"png", "jpeg"}}
    \cup {[response |-> "ACCEPT", filename |-> p, filter |-> f, ok |-> TRUE, onFail |-> "unchanged"] :
        p \in Paths, f \in {"png", "jpeg"}}
    \cup {[response |-> "ACCEPT", filename |-> p, filter |-> "png", ok |-> FALSE, onFail |-> m] :
        p \in Paths, m \in {"unchanged", "partial"}}

VARIABLES
    pc,        \* main's position: "start", "gtk_main", "returned"
    pending,   \* the callback the toolkit still owes: "none", "targets", "content"
    targets,   \* the identifiers the clipboard offers in this run
    sel,       \* the selection data delivered to the content callback
    ans,       \* what the dialog returned in the save routine
    requests,  \* atoms passed to gtk_clipboard_request_contents
    out,       \* everything printed by g_print and g_printerr, in order
    quits,     \* calls of gtk_main_quit, each with the function that made it
    dialogs,   \* save dialogs run
    saves,     \* calls of g_file_set_contents and gdk_pixbuf_save
    decodes,   \* calls of gtk_selection_data_get_pixbuf / _get_text
    fs,        \* the filesystem: path -> contents
    live,      \* payload objects allocated and not yet released
    exitCode   \* main's return value, -1 before it returns

vars == <<pc, pending, targets, sel, ans, requests, out, quits, dialogs, saves,
          decodes, fs, live, exitCode>>

\* ------------------------------------------------------- glib string tests
\* g_str_has_prefix(str, prefix)
GStrHasPrefix(str, prefix) ==
    /\ Len(str) >= Len(prefix)
    /\ \A i \in 1..Len(prefix) : str[i] = prefix[i]

\* g_str_has_suffix(str, suffix)
GStrHasSuffix(str, suffix) ==
    /\ Len(str) >= Len(suffix)
    /\ \A i \in 1..Len(suffix) : str[Len(str) - Len(suffix) + i] = suffix[i]

\* g_strcmp0(a, b) == 0
GStrEqual(a, b) ==
    /\ Len(a) = Len(b)
    /\ \A i \in 1..Len(a) : a[i] = b[i]

ImagePrefix == <<"i","m","a","g","e","/">>
DotJpg == <<".","j","p","g">>
DotJpeg == <<".","j","p","e","g">>

\* a C string in memory: the bytes and the terminating NUL
CString(bytes) == Append(bytes, 0)

\* strlen(buf): the index of the first NUL, less one
RECURSIVE StrLenFrom(_, _)
StrLenFrom(buf, i) ==
    IF i > Len(buf) \/ buf[i] = 0 THEN i - 1 ELSE StrLenFrom(buf, i + 1)

StrLen(buf) == StrLenFrom(buf, 1)

\* ------------------------------------------------------------------ output
Msg(tag, arg) == [msg |-> tag, arg |-> arg]

\* g_print / g_printerr of one piece of output
GPrint(w, m) == [w EXCEPT !.out = Append(@, m)]

\* gtk_main_quit(), called from function `from`
GtkMainQuit(w, from) == [w EXCEPT !.quits = Append(@, from)]

\* ------------------------------------------------------------ save_text
\* g_file_set_contents(filename, text, length, &error) with length -1:
\* the bytes up to the NUL replace the file; a failed write leaves what
\* the filesystem decides.
\* mutant: the buffer's size, terminator included
TextWriteLengthWithNul(buf) == Len(buf)

TextWriteLength(buf) == StrLen(buf)

GFileSetContents(w, filename, buf, a) ==
    LET n  == TextWriteLength(buf)
        w1 == [w EXCEPT !.saves = Append(@, [fn |-> "g_file_set_contents",
                                              path |-> filename, format |-> "raw"])]
    IN  IF a.ok
        THEN [w1 EXCEPT !.fs[filename] = [kind |-> "bytes", data |-> SubSeq(buf, 1, n)]]
        ELSE IF a.onFail = "partial"
             THEN [w1 EXCEPT !.fs[filename] = [kind |-> "partial", data |-> <<>>]]
             ELSE w1

\* mutant: only an explicit cancel counts as dismissal
DialogAcceptedUnlessCancel(a) == a.response # "CANCEL"

\* the test of gtk_native_dialog_run's result
DialogAccepted(a) == a.response = "ACCEPT"

SaveText(w, text, a) ==
    LET shown == [w EXCEPT !.dialogs = Append(@, [title |-> "Save Text File",
                                                  name |-> "clipboard_text.txt"])]
        done ==
            IF DialogAccepted(a)
            THEN IF a.filename # NullPath
                 THEN LET written == GFileSetContents(shown, a.filename, text, a)
                      IN  IF a.ok
                          THEN GPrint(written, Msg("text_saved", a.filename))
                          ELSE GPrint(written, Msg("text_error", a.filename))
                 ELSE shown
            ELSE GPrint(shown, Msg("text_canceled", <<>>))
    IN  GtkMainQuit(done, "save_text")

\* ------------------------------------------------------------ save_image
\* mutant: the .jpeg suffix forgotten
ImageFormatJpgOnly(filename) ==
    IF GStrHasSuffix(filename, DotJpg) THEN "jpeg" ELSE "png"

\* the format chosen from the file name
ImageFormat(filename) ==
    IF GStrHasSuffix(filename, DotJpg) \/ GStrHasSuffix(filename, DotJpeg)
    THEN "jpeg"
    ELSE "png"

\* gdk_pixbuf_save(pixbuf, filename, format, &error, NULL)
GdkPixbufSave(w, filename, format, a) ==
    LET w1 == [w EXCEPT !.saves = Append(@, [fn |-> "gdk_pixbuf_save",
                                              path |-> filename, format |-> format])]
    IN  IF a.ok
        THEN [w1 EXCEPT !.fs[filename] = [kind |-> format, data |-> <<>>]]
        ELSE IF a.onFail = "partial"
             THEN [w1 EXCEPT !.fs[filename] = [kind |-> "partial", data |-> <<>>]]
             ELSE w1

SaveImage(w, a) ==
    LET shown == [w EXCEPT !.dialogs = Append(@, [title |-> "Save Image File",
                                                  name |-> "clipboard_image.png"])]
        done ==
            IF DialogAccepted(a)
            THEN IF a.filename # NullPath
                 THEN LET written == GdkPixbufSave(shown, a.filename, ImageFormat(a.filename), a)
                      IN  IF a.ok
                          THEN GPrint(written, Msg("image_saved", a.filename))
                          ELSE GPrint(written, Msg("image_error", a.filename))
                 ELSE shown
            ELSE GPrint(shown, Msg("image_canceled", <<>>))
    IN  GtkMainQuit(done, "save_image")

\* ------------------------------------------ on_clipboard_received_content
\* gtk_selection_data_get_pixbuf: a new pixbuf, or NULL
GetPixbuf(sd) == sd.length > 0 /\ sd.kind = "image"

\* gtk_selection_data_get_text: a newly allocated string, or NULL
GetText(sd) == sd.length >= 0 /\ sd.kind = "text"

\* what the callback does with the pixbuf after save_image returns
ReleasePixbuf(w) == [w EXCEPT !.live = @ \ {"pixbuf"}]

\* what the callback does with the text after save_text returns: nothing
ReleaseText(w) == w

\* mutant: the length test written as a failure test
IsEmptySelectionNegative(sd) == sd.length < 0

\* the callback's first test
IsEmptySelection(sd) == sd.length = 0

\* the callback after its first test: decode, save, release
DecodeAndSave(w, sd, a) ==
    LET w1 == [w EXCEPT !.decodes = Append(@, "get_pixbuf")]
    IN  IF GetPixbuf(sd)
        THEN LET w2 == [w1 EXCEPT !.live = @ \cup {"pixbuf"}]
                 w3 == GPrint(w2, Msg("image_detected", <<>>))
             IN  ReleasePixbuf(SaveImage(w3, a))
        ELSE LET w2 == [w1 EXCEPT !.decodes = Append(@, "get_text")]
             IN  IF GetText(sd)
                 THEN LET w3 == [w2 EXCEPT !.live = @ \cup {"text"}]
                          w4 == GPrint(w3, Msg("text_detected", <<>>))
                      IN  ReleaseText(SaveText(w4, CString(sd.text), a))
                 ELSE GtkMainQuit(GPrint(w2, Msg("empty_or_unsupported", <<>>)),
                                  "on_clipboard_received_content")

\* mutant: the empty branch without its return
ReceivedContentNoReturn(w, sd, a) ==
    IF IsEmptySelection(sd)
    THEN DecodeAndSave(GtkMainQuit(GPrint(w, Msg("empty_or_unsupported", <<>>)),
                                   "on_clipboard_received_content"), sd, a)
    ELSE DecodeAndSave(w, sd, a)

ReceivedContent(w, sd, a) ==
    IF IsEmptySelection(sd)
    THEN GtkMainQuit(GPrint(w, Msg("empty_or_unsupported", <<>>)),
                     "on_clipboard_received_content")
    ELSE DecodeAndSave(w, sd, a)

\* ------------------------------------------ on_clipboard_received_targets
IsImageTarget(name) == GStrHasPrefix(name, ImagePrefix)

\* mutant: text targets matched by prefix
IsTextTargetByPrefix(name) ==
    GStrHasPrefix(name, TextPlain) \/ GStrHasPrefix(name, Utf8String)

IsTextTarget(name) == GStrEqual(name, TextPlain) \/ GStrEqual(name, Utf8String)

\* the first loop: the first image target from index i on, or NULL
RECURSIVE ImageLoop(_, _)
ImageLoop(ts, i) ==
    IF i > Len(ts) THEN NoAtom
    ELSE IF IsImageTarget(ts[i]) THEN ts[i]
    ELSE ImageLoop(ts, i + 1)

\* the second loop: the first text target from index i on, or NULL
RECURSIVE TextLoop(_, _)
TextLoop(ts, i) ==
    IF i > Len(ts) THEN NoAtom
    ELSE IF IsTextTarget(ts[i]) THEN ts[i]
    ELSE TextLoop(ts, i + 1)

\* mutant: the text loop run before the image loop
SelectTargetTextFirst(ts) ==
    LET text == TextLoop(ts, 1)
    IN  IF text = NoAtom THEN ImageLoop(ts, 1) ELSE text

\* target_atom after both loops
SelectTarget(ts) ==
    LET image == ImageLoop(ts, 1)
    IN  IF image = NoAtom THEN TextLoop(ts, 1) ELSE image

\* mutant: the separator test off by one
RECURSIVE PrintTargetsCommaFirst(_, _, _)
PrintTargetsCommaFirst(w, ts, i) ==
    IF i > Len(ts) THEN w
    ELSE LET w1 == IF i > 0 THEN GPrint(w, Msg("comma", <<>>)) ELSE w
         IN  PrintTargetsCommaFirst(GPrint(w1, Msg("name", ts[i])), ts, i + 1)

\* the loop printing the offered names, separated by ", "
RECURSIVE PrintTargets(_, _, _)
PrintTargets(w, ts, i) ==
    IF i > Len(ts) THEN w
    ELSE LET w1 == IF i > 1 THEN GPrint(w, Msg("comma", <<>>)) ELSE w
         IN  PrintTargets(GPrint(w1, Msg("name", ts[i])), ts, i + 1)

ReceivedTargets(w, ts) ==
    LET atom == SelectTarget(ts)
    IN  IF atom # NoAtom
        THEN [w EXCEPT !.requests = Append(@, atom), !.pending = "content"]
        ELSE LET w1 == GPrint(w, Msg("empty_or_unsupported", <<>>))
                 w2 == GPrint(w1, Msg("found_targets", <<>>))
                 w3 == PrintTargets(w2, ts, 1)
                 w4 == GPrint(w3, Msg("newline", <<>>))
             IN  GtkMainQuit(w4, "on_clipboard_received_targets")

\* ------------------------------------------------------------------- state
World ==
    [pending |-> pending, requests |-> requests, out |-> out, quits |-> quits,
     dialogs |-> dialogs, saves |-> saves, decodes |-> decodes, fs |-> fs,
     live |-> live]

Becomes(w) ==
    /\ pending' = w.pending
    /\ requests' = w.requests
    /\ out' = w.out
    /\ quits' = w.quits
    /\ dialogs' = w.dialogs
    /\ saves' = w.saves
    /\ decodes' = w.decodes
    /\ fs' = w.fs
    /\ live' = w.live

NoSelection == [length |-> -1, kind |-> "none", text |-> <<>>]

Init ==
    /\ pc = "start"
    /\ pending = "none"
    /\ targets \in TargetLists
    /\ sel = NoSelection
    /\ ans = NoAnswer
    /\ requests = <<>>
    /\ out = <<>>
    /\ quits = <<>>
    /\ dialogs = <<>>
    /\ saves = <<>>
    /\ decodes = <<>>
    /\ fs = InitFS
    /\ live = {}
    /\ exitCode = -1

\* main up to gtk_main(): gtk_init, gtk_clipboard_get, gtk_clipboard_request_targets
MainRequestTargets ==
    /\ pc = "start"
    /\ pc' = "gtk_main"
    /\ pending' = "targets"
    /\ UNCHANGED <<targets, sel, ans, requests, out, quits, dialogs, saves,
                   decodes, fs, live, exitCode>>

\* the main loop delivers the target list
OnClipboardReceivedTargets ==
    /\ pc = "gtk_main"
    /\ pending = "targets"
    /\ Becomes(ReceivedTargets([World EXCEPT !.pending = "none"], targets))
    /\ UNCHANGED <<pc, targets, sel, ans, exitCode>>

\* the answers a save routine consults; a run that shows no dialog takes none
AnswersFor(sd) ==
    IF ~IsEmptySelection(sd) /\ (GetPixbuf(sd) \/ GetText(sd)) THEN Answers ELSE {NoAnswer}

\* the main loop delivers the requested contents
OnClipboardReceivedContent ==
    /\ pc = "gtk_main"
    /\ pending = "content"
    /\ \E sd \in SelectionData : \E a \in AnswersFor(sd) :
          /\ sel' = sd
          /\ ans' = a
          /\ Becomes(ReceivedContent([World EXCEPT !.pending = "none"], sd, a))
    /\ UNCHANGED <<pc, targets, exitCode>>

\* gtk_main() returns once gtk_main_quit has been called; main returns 0
MainReturn ==
    /\ pc = "gtk_main"
    /\ Len(quits) > 0
    /\ pc' = "returned"
    /\ exitCode' = 0
    /\ UNCHANGED <<pending, targets, sel, ans, requests, out, quits, dialogs,
                   saves, decodes, fs, live>>

Next ==
    \/ MainRequestTargets
    \/ OnClipboardReceivedTargets
    \/ OnClipboardReceivedContent
    \/ MainReturn

Spec == Init /\ [][Next]_vars

\* ================================================================== claims
\* what the claims speak of, stated without the code's string tests
ImageNames == {ImagePng, ImageJpeg}
TextNames == {TextPlain, Utf8String}
JpegPaths == {PathJpg, PathJpeg, PathOnlyExt}

OffersImage == \E i \in 1..Len(targets) : targets[i] \in ImageNames
OffersText == \E i \in 1..Len(targets) : targets[i] \in TextNames

FirstIn(ts, S) ==
    ts[CHOOSE i \in 1..Len(ts) : ts[i] \in S /\ \A j \in 1..(i - 1) : ts[j] \notin S]

\* the targets callback has run
TargetsDelivered == pc # "start" /\ pending # "targets"
\* every callback the program asked for has run
AllDelivered == pc # "start" /\ pending = "none"
\* the content callback has run
ContentDelivered == AllDelivered /\ requests # <<>>

TextDialogShown == dialogs # <<>> /\ dialogs[1].title = "Save Text File"
ImageDialogShown == dialogs # <<>> /\ dialogs[1].title = "Save Image File"
AcceptedWithPath == ans.response = "ACCEPT" /\ ans.filename # NullPath

Printed(tag) == \E i \in 1..Len(out) : out[i].msg = tag

\* C1: when the offered list holds an image/ identifier, the contents
\* requested are those of the first image/ identifier in list order, and of
\* nothing else, whatever text identifiers stand before or after it.
C1_ImageTargetChosen ==
    (TargetsDelivered /\ OffersImage) => requests = <<FirstIn(targets, ImageNames)>>

C1_Witness ==
    /\ targets = <<TextPlain, ImageJpeg, ImagePng>>
    /\ requests = <<ImageJpeg>>

\* C2: when the offered list holds no image/ identifier but one that is
\* exactly text/plain or UTF8_STRING, the contents requested are those of the
\* first such identifier, the targets callback prints nothing and does not
\* quit, and the list of found targets is never printed.
C2_TextTargetChosen ==
    (TargetsDelivered /\ ~OffersImage /\ OffersText) =>
        /\ requests = <<FirstIn(targets, TextNames)>>
        /\ ~Printed("found_targets")
        /\ pending = "content" => (out = <<>> /\ quits = <<>>)

C2_Witness ==
    /\ targets = <<TextPlainCharset, Utf8String, TextPlain>>
    /\ requests = <<Utf8String>>

\* the report of a list of targets: the message, the heading, the names in
\* list order separated by commas, the end of line
TargetReport(ts) ==
    <<Msg("empty_or_unsupported", <<>>), Msg("found_targets", <<>>)>>
    \o [k \in 1..(IF Len(ts) = 0 THEN 0 ELSE 2 * Len(ts) - 1) |->
            IF k % 2 = 1 THEN Msg("name", ts[(k + 1) \div 2]) ELSE Msg("comma", <<>>)]
    \o <<Msg("newline", <<>>)>>

\* C3: when the offered list (the empty one included) holds neither an image/
\* identifier nor text/plain nor UTF8_STRING, the program prints every offered
\* identifier in list order and quits the loop; no contents are requested, no
\* dialog is shown and no file is written.
C3_NoUsableTarget ==
    (TargetsDelivered /\ ~OffersImage /\ ~OffersText) =>
        /\ out = TargetReport(targets)
        /\ quits = <<"on_clipboard_received_targets">>
        /\ pending = "none"
        /\ requests = <<>>
        /\ dialogs = <<>>
        /\ saves = <<>>
        /\ fs = InitFS

C3_Witness ==
    /\ targets = <<TextPlainCharset, ImageNoSlash>>
    /\ quits = <<"on_clipboard_received_targets">>
    /\ Len(out) = 6

\* C4: after a text save whose write succeeded, the chosen file holds the
\* payload byte for byte, in place of what it held before, and no other file
\* has changed.
C4_TextSavedVerbatim ==
    (TextDialogShown /\ AcceptedWithPath /\ ans.ok) =>
        /\ fs[ans.filename] = [kind |-> "bytes", data |-> sel.text]
        /\ \A p \in Paths \ {ans.filename} : fs[p] = InitFS[p]

C4_Witness ==
    /\ TextDialogShown
    /\ sel.text = <<104, 10>>
    /\ ans.filename = PathTxt
    /\ InitFS[PathTxt].data = OldData
    /\ fs[PathTxt].data = <<104, 10>>

\* C5: after an image dialog accepted with a path, the encoder has been
\* invoked exactly once, for that path, with format JPEG when the path ends in
\* .jpg or .jpeg and PNG for every other path, whatever dialog filter and
\* clipboard target were chosen.
C5_ImageFormatFromSuffix ==
    (ImageDialogShown /\ AcceptedWithPath) =>
        saves = <<[fn |-> "gdk_pixbuf_save", path |-> ans.filename,
                   format |-> IF ans.filename \in JpegPaths THEN "jpeg" ELSE "png"]>>

C5_Witness ==
    /\ ImageDialogShown
    /\ requests = <<ImagePng>>
    /\ ans.filter = "png"
    /\ ans.filename = PathJpeg
    /\ saves[1].format = "jpeg"

\* C6: in the text flow and in the image flow, a dialog dismissed without
\* acceptance leaves the filesystem unchanged, invokes no write and no encode,
\* prints the flow's "canceled" message last and quits the loop.
C6_CancelWritesNothing ==
    (dialogs # <<>> /\ ans.response # "ACCEPT") =>
        /\ fs = InitFS
        /\ saves = <<>>
        /\ out[Len(out)] = Msg(IF TextDialogShown THEN "text_canceled" ELSE "image_canceled", <<>>)
        /\ Len(quits) = 1

C6_Witness ==
    /\ ImageDialogShown
    /\ ans.response = "DELETE_EVENT"
    /\ Printed("image_canceled")

\* C7: a fetched payload of length zero makes the content callback print the
\* "empty or unsupported format" message and quit, with no image or text
\* decoding, no dialog, no file written and no list of targets.
C7_ZeroLengthPayload ==
    (ContentDelivered /\ sel.length = 0) =>
        /\ out = <<Msg("empty_or_unsupported", <<>>)>>
        /\ quits = <<"on_clipboard_received_content">>
        /\ decodes = <<>>
        /\ dialogs = <<>>
        /\ saves = <<>>
        /\ fs = InitFS

C7_Witness ==
    /\ ContentDelivered
    /\ sel = [length |-> 0, kind |-> "text", text |-> <<>>]
    /\ quits # <<>>

OutcomeTags == {"empty_or_unsupported", "text_saved", "text_error", "text_canceled",
                "image_saved", "image_error", "image_canceled"}

\* C8: whenever the loop has been quit, exactly one outcome message (error,
\* cancellation, success or "empty or unsupported format") has been printed.
C8_ExactlyOneOutcomeMessage ==
    quits # <<>> => Cardinality({i \in 1..Len(out) : out[i].msg \in OutcomeTags}) = 1

\* C9: in every run at most one dialog is shown and at most one write or
\* encode is attempted; no callback is owed once the loop is quit; once every
\* requested callback has been delivered the loop has been quit exactly once,
\* by the last callback delivered, main can then return, and it returns 0.
C9_OneSaveOneQuit ==
    /\ Len(dialogs) <= 1
    /\ Len(saves) <= 1
    /\ Len(requests) <= 1
    /\ Len(quits) <= 1
    /\ pending # "none" => quits = <<>>
    /\ AllDelivered =>
          /\ Len(quits) = 1
          /\ requests = <<>> => quits[1] = "on_clipboard_received_targets"
          /\ requests # <<>> => quits[1] \in {"on_clipboard_received_content",
                                              "save_text", "save_image"}
          /\ pc = "gtk_main" => ENABLED MainReturn
    /\ pc = "returned" => (AllDelivered /\ exitCode = 0)

C9_Witness ==
    /\ pc = "returned"
    /\ exitCode = 0
    /\ Len(saves) = 1
    /\ ~ans.ok
    /\ quits = <<"save_image">>

\* C10: once the content callback has returned, no fetched image or text
\* payload is still allocated.
C10_PayloadReleased ==
    AllDelivered => live = {}

====
